---- MODULE Spec2Model ----
(***************************************************************************)
(* draftfast/optimize.py: the single-shot solve `run` and the              *)
(* multi-iteration exposure loop `run_multi`, with the collaborators they  *)
(* call (pool filter, lineup constraints, optimizer, exposure controller)  *)
(* modelled at their interface.                                            *)
(*                                                                         *)
(* Encoding of Python values:                                              *)
(*   None            the empty sequence << >>                              *)
(*   an object x     the one-element sequence <<x>> where None is possible *)
(*   a player        its index in player_pool                              *)
(*   a Roster        the sequence of players in add_player order           *)
(*   a dict          a sequence of <<key, value>> pairs, insertion order   *)
(***************************************************************************)
EXTENDS Integers, Sequences, FiniteSets, TLC

\* ------------------------------------------------------------------ bounds
MaxIter == 3
MaxCalls == 2

\* --------------------------------------------------------- Python helpers
None == << >>

Some(x) == <<x>>

\* bool(x) of an optional int: None and 0 are falsy.
TruthyInt(x) == x # None /\ x[1] # 0

\* bool(x) of a list or of None.
TruthyList(x) == Len(x) > 0

Range(s) == {s[i] : i \in 1..Len(s)}

RECURSIVE SumOver(_, _)
SumOver(f, S) ==
    IF S = {} THEN 0
    ELSE LET x == CHOOSE y \in S : TRUE IN f[x] + SumOver(f, S \ {x})

\* ------------------------------------------------------------- the inputs
\* run_multi's player_pool argument: the caller's pool, in pool order.  The
\* list itself never changes (only its players' flags do).
VARIABLE player_pool

\* The pool of the general runs.  Names are unique within the pool.
DefaultPool ==
    << [name |-> "A", pos |-> "G", cost |-> 4, value |-> 6],
       [name |-> "X", pos |-> "G", cost |-> 1, value |-> 1],
       [name |-> "B", pos |-> "G", cost |-> 3, value |-> 3],
       [name |-> "C", pos |-> "F", cost |-> 4, value |-> 5],
       [name |-> "D", pos |-> "F", cost |-> 2, value |-> 2] >>

PlayerIds == 1..Len(player_pool)

Positions == {"G", "F"}

\* Rule sets: roster size, position quota table, salary cap.
RuleSets ==
    { [league |-> "L", roster_size |-> 2, quota |-> [p \in Positions |-> 1],
       cap |-> c] : c \in {2, 5, 8} }

\* PlayerPoolSettings values a caller may pass (None included).
PlayerSettingsSet ==
    { None,
      Some([banned |-> << >>, locked |-> << >>, min_salary |-> 2]),
      Some([banned |-> <<"A", "X">>, locked |-> << >>, min_salary |-> 2]),
      Some([banned |-> << >>, locked |-> <<"B">>, min_salary |-> 2]),
      Some([banned |-> <<"Z">>, locked |-> <<"D">>, min_salary |-> 0]),
      Some([banned |-> <<"C">>, locked |-> <<"C">>, min_salary |-> 2]) }

\* exposure_bounds values: None (<< >>) or a list of per-player count bounds.
ExposureBoundsSet ==
    { None,
      << [name |-> "B", min |-> 0, max |-> 1] >>,
      << [name |-> "D", min |-> 1, max |-> 2],
         [name |-> "C", min |-> 0, max |-> 1] >> }

\* The pool of the ten-player example: costs 10..55, value equal to cost,
\* one position.
ExampleCosts == <<10, 20, 30, 40, 50, 15, 25, 35, 45, 55>>

ExampleNames == <<"P10", "P20", "P30", "P40", "P50", "P15", "P25", "P35", "P45", "P55">>

ExamplePool ==
    [i \in 1..Len(ExampleCosts) |->
        [name |-> ExampleNames[i], pos |-> "G", cost |-> ExampleCosts[i],
         value |-> ExampleCosts[i]]]

\* The example's rule set: a 5-player roster under a cap of 100.
ExampleRuleSet ==
    [league |-> "L", roster_size |-> 5, quota |-> [p \in Positions |->
        IF p = "G" THEN 5 ELSE 0], cap |-> 100]

\* The example's calls: no ban, the pool's most valuable player banned, the
\* returned roster's most valuable player banned.
ExampleSettingsSet ==
    { None,
      Some([banned |-> << >>, locked |-> << >>, min_salary |-> 0]),
      Some([banned |-> <<"P55">>, locked |-> << >>, min_salary |-> 0]),
      Some([banned |-> <<"P30">>, locked |-> << >>, min_salary |-> 0]) }

ExampleBoundsSet == { None, << [name |-> "P10", min |-> 0, max |-> 1] >> }

\* exposure_random_seed values: None, 0 and a non-zero seed.
SeedSet == { None, Some(0), Some(3) }

\* Ban/lock flags the pool's players may carry when run_multi is called.
NoFlags == [p \in PlayerIds |-> FALSE]

FlagsOf(S) == [p \in PlayerIds |-> p \in S]

AllClear(b, l) == \A p \in PlayerIds : ~b[p] /\ ~l[p]

\* ------------------------------------------------ the pseudo-random source
\* Python's global `random`: a generator state that random.seed(s) sets and
\* every draw advances.  A full-period linear congruential generator.
RngMod == 8

RngSeed(s) == s % RngMod

RngNext(x) == (5 * x + 3) % RngMod

\* ------------------------------------------------------- LineupConstraints
\* Variant of Constraints without the loop over player_settings.locked.
NoLockConstraints(ps) ==
    [ banned |-> IF ps # None /\ TruthyList(ps[1].banned)
                 THEN Range(ps[1].banned) ELSE {},
      locked |-> {} ]

\* run, lines 20-28: the constraints built from player_settings.  A name is
\* recorded only when player_settings and its list are truthy.
Constraints(ps) ==
    [ banned |-> IF ps # None /\ TruthyList(ps[1].banned)
                 THEN Range(ps[1].banned) ELSE {},
      locked |-> IF ps # None /\ TruthyList(ps[1].locked)
                 THEN Range(ps[1].locked) ELSE {} ]

\* ------------------------------------------------------------- filter_pool
\* pool.filter_pool(player_pool, player_settings): the players that pass the
\* static eligibility filter (salary floor), in pool order.
RECURSIVE FilterFrom(_, _)
FilterFrom(i, floor) ==
    IF i > Len(player_pool) THEN << >>
    ELSE (IF player_pool[i].cost >= floor THEN <<i>> ELSE << >>)
         \o FilterFrom(i + 1, floor)

filter_pool(ps) ==
    IF ps = None THEN FilterFrom(1, 0) ELSE FilterFrom(1, ps[1].min_salary)

\* ------------------------------------------------------- get_exposure_args
\* Number of rosters of the history that contain the player named nm.
Count(history, nm) ==
    Cardinality({k \in 1..Len(history) :
                    \E j \in 1..Len(history[k]) :
                        player_pool[history[k][j]].name = nm})

\* One bound's hint.  Forced out once the player has reached its upper bound;
\* forced in when the iterations left cannot otherwise reach its lower bound;
\* in random mode an undecided player is forced out on an even draw.
\* Result: <<hint, rng'>> with hint in {"ban", "lock", "none"}.
HintFor(history, b, n, use_random, rng) ==
    LET c == Count(history, b.name)
        left == n - Len(history)
    IN  IF c >= b.max THEN <<"ban", rng>>
        ELSE IF c < b.min /\ b.min - c >= left THEN <<"lock", rng>>
        ELSE IF use_random
             THEN <<IF RngNext(rng) % 2 = 0 THEN "ban" ELSE "none", RngNext(rng)>>
             ELSE <<"none", rng>>

RECURSIVE ExposureFrom(_, _, _, _, _, _)
ExposureFrom(i, history, bounds, n, use_random, rng) ==
    IF i > Len(bounds) THEN [banned |-> {}, locked |-> {}, rng |-> rng]
    ELSE LET h == HintFor(history, bounds[i], n, use_random, rng)
             rest == ExposureFrom(i + 1, history, bounds, n, use_random, h[2])
         IN  [ banned |-> rest.banned \cup
                         (IF h[1] = "ban" THEN {bounds[i].name} ELSE {}),
               locked |-> rest.locked \cup
                         (IF h[1] = "lock" THEN {bounds[i].name} ELSE {}),
               rng |-> rest.rng ]

get_exposure_args(history, bounds, n, use_random, rng) ==
    ExposureFrom(1, history, bounds, n, use_random, rng)

\* ---------------------------------------------------------- check_exposure
\* Per bounded player, observed count minus the bound it misses (0 inside).
Deviation(rs, b) ==
    LET c == Count(rs, b.name)
    IN  IF c > b.max THEN c - b.max
        ELSE IF c < b.min THEN c - b.min
        ELSE 0

check_exposure(rs, bounds) ==
    [i \in 1..Len(bounds) |-> <<bounds[i].name, Deviation(rs, bounds[i])>>]

\* --------------------------------------------------------------- Optimizer
\* Names forced out / forced in for one solve: the lineup constraints plus
\* the exposure hints (exposure_dct is None or Some of a hint record).
ForcedOut(cons, dct) == cons.banned \cup (IF dct = None THEN {} ELSE dct[1].banned)

ForcedIn(cons, dct) == cons.locked \cup (IF dct = None THEN {} ELSE dct[1].locked)

\* The overlay: a forced name marks the player of the solve's list that bears
\* it; a name that resolves to no player marks nothing.  Flags already set
\* on a player stay set.
ApplyFlags(flags, players, names) ==
    [p \in PlayerIds |->
        flags[p] \/ (p \in Range(players) /\ player_pool[p].name \in names)]

\* All 0/1 assignments to the variables, one variable per listed player.
Assignments(players) == [1..Len(players) -> {0, 1}]

Selected(v) == {i \in DOMAIN v : v[i] = 1}

TotalCost(players, v) ==
    SumOver([i \in DOMAIN v |-> player_pool[players[i]].cost], Selected(v))

TotalValue(players, v) ==
    SumOver([i \in DOMAIN v |-> player_pool[players[i]].value], Selected(v))

PosCount(players, v, pos) ==
    Cardinality({i \in Selected(v) : player_pool[players[i]].pos = pos})

\* The rule set's structural constraints on an assignment.
Legal(players, rs, v) ==
    /\ Cardinality(Selected(v)) = rs.roster_size
    /\ \A pos \in Positions : PosCount(players, v, pos) = rs.quota[pos]
    /\ TotalCost(players, v) <= rs.cap

\* Structural constraints plus variable == 1 for a locked player and
\* variable == 0 for a banned one.
Feasible(players, rs, b, l, v) ==
    /\ Legal(players, rs, v)
    /\ \A i \in DOMAIN v : l[players[i]] => v[i] = 1
    /\ \A i \in DOMAIN v : b[players[i]] => v[i] = 0

FeasibleSet(players, rs, b, l) ==
    {v \in Assignments(players) : Feasible(players, rs, b, l, v)}

\* Ties between optimal assignments are broken towards the earlier players.
RECURSIVE Code(_, _)
Code(v, i) == IF i > Len(v) THEN 0 ELSE v[i] + 2 * Code(v, i + 1)

\* v is at least as good a solution as w: more value, or the same value and
\* the earlier players.
Preferred(players, v, w) ==
    \/ TotalValue(players, w) < TotalValue(players, v)
    \/ /\ TotalValue(players, w) = TotalValue(players, v)
       /\ Code(v, 1) <= Code(w, 1)

\* The solver's answer over the feasible set F: None when F is empty, else
\* Some of the preferred assignment.
Best(players, F) ==
    IF F = {} THEN None
    ELSE Some(CHOOSE v \in F : \A w \in F : Preferred(players, v, w))

\* optimizer.solve(): None when infeasible, else Some of the solution values.
\* The feasible set is built once per solve.
Solve(players, rs, b, l) ==
    CHOOSE s \in {Best(players, F) : F \in {FeasibleSet(players, rs, b, l)}} : TRUE

\* --------------------------------------------------------------------- run
\* Variant of ExtractRoster that indexes the unfiltered pool.
RECURSIVE ExtractFromPool(_, _, _)
ExtractFromPool(i, players, values) ==
    IF i > Len(players) THEN << >>
    ELSE (IF values[i] = 1 THEN <<i>> ELSE << >>)
         \o ExtractFromPool(i + 1, players, values)

ExtractByPoolIndex(players, values) == ExtractFromPool(1, players, values)

\* Variant of ExtractRoster that adds every player of the list.
ExtractAll(players, values) == players

\* Variant of ExtractRoster with the test on the solution value inverted.
RECURSIVE ExtractUnselectedFrom(_, _, _)
ExtractUnselectedFrom(i, players, values) ==
    IF i > Len(players) THEN << >>
    ELSE (IF values[i] # 1 THEN <<players[i]>> ELSE << >>)
         \o ExtractUnselectedFrom(i + 1, players, values)

ExtractUnselected(players, values) == ExtractUnselectedFrom(1, players, values)

\* run, lines 50-52: add players[i] for every i whose variable is 1.
RECURSIVE ExtractFrom(_, _, _)
ExtractFrom(i, players, values) ==
    IF i > Len(players) THEN << >>
    ELSE (IF values[i] = 1 THEN <<players[i]>> ELSE << >>)
         \o ExtractFrom(i + 1, players, values)

ExtractRoster(players, values) == ExtractFrom(1, players, values)

\* Variant of run that creates a roster before looking at the solve's flag.
RunEmptyOnFail(rs, ps, dct, b, l) ==
    LET cons == Constraints(ps)
        players == filter_pool(ps)
        b2 == ApplyFlags(b, players, ForcedOut(cons, dct))
        l2 == ApplyFlags(l, players, ForcedIn(cons, dct))
        sol == Solve(players, rs, b2, l2)
    IN  [ players |-> players, ban |-> b2, lock |-> l2,
          values |-> sol,
          roster |-> IF sol # None
                     THEN Some(ExtractFrom(1, players, sol[1])) ELSE Some(<< >>) ]

\* Variant of run in which a ban or lock name that matches no player of the
\* list is an error: the call yields no roster.
RunStrictNames(rs, ps, dct, b, l) ==
    LET cons == Constraints(ps)
        players == filter_pool(ps)
        known == {player_pool[players[i]].name : i \in 1..Len(players)}
        b2 == ApplyFlags(b, players, ForcedOut(cons, dct))
        l2 == ApplyFlags(l, players, ForcedIn(cons, dct))
        sol == IF (cons.banned \cup cons.locked) \subseteq known
               THEN Solve(players, rs, b2, l2) ELSE None
    IN  [ players |-> players, ban |-> b2, lock |-> l2,
          values |-> sol,
          roster |-> IF sol # None
                     THEN Some(ExtractFrom(1, players, sol[1])) ELSE None ]

\* run, lines 20-70: the single-shot solve.  Result: the filtered list, the
\* flags after the optimizer applied the overlay, the solution values and the
\* returned roster (None when the solve fails: no roster is created).  The
\* solver is called once (line 44) and sol is its answer.
run(rs, ps, dct, b, l) ==
    LET cons == Constraints(ps)
        players == filter_pool(ps)
        b2 == ApplyFlags(b, players, ForcedOut(cons, dct))
        l2 == ApplyFlags(l, players, ForcedIn(cons, dct))
    IN  CHOOSE r \in
            { [ players |-> players, ban |-> b2, lock |-> l2,
                values |-> sol,
                roster |-> IF sol # None
                           THEN Some(ExtractRoster(players, sol[1])) ELSE None ] :
              sol \in {Solve(players, rs, b2, l2)} } : TRUE

\* Variants of reset_player_ban_lock: no reset; only p.ban cleared.
ResetNothing(b, l) == <<b, l>>

ResetBanOnly(b, l) == <<NoFlags, l>>

\* reset_player_ban_lock, lines 137-140: <<ban, lock>> after the reset.
reset_player_ban_lock(b, l) ==
    << [p \in PlayerIds |-> FALSE], [p \in PlayerIds |-> FALSE] >>

\* --------------------------------------------------------------- the state
VARIABLES
    pc,                    \* position of the caller / run_multi
    iterations, rule_set, player_settings, exposure_bounds,
    exposure_random_seed, verbose,          \* run_multi's other arguments
    ban, lock,             \* p.ban / p.lock of every player of the pool
    existing_rosters,      \* optimizer_settings.existing_rosters
    rng,                   \* state of the global random generator
    rosters,               \* run_multi's local list
    it,                    \* number of completed passes of the for loop
    exposure_dct,          \* this iteration's hints
    players, values, roster,   \* run's filtered list, solution, result
    overlay,               \* names forced out / in for the last solve
    hint_log,              \* the get_exposure_args calls of this run_multi call
    report,                \* the UNDER/OVER lines printed by this call
    call_existing,         \* existing_rosters as it was at the call
    halted,                \* the loop was left by `break`
    results,               \* what each finished run_multi call returned
    call_ban, call_lock,   \* the flags as they were when run_multi was called
    solves, created, seedings  \* solver calls, rosters created, random.seed calls

args == <<player_pool, iterations, rule_set, player_settings, exposure_bounds,
          exposure_random_seed, verbose>>

locals == <<rosters, it, exposure_dct, players, values, roster, overlay, halted>>

history == <<results, call_ban, call_lock, solves, created, seedings,
             hint_log, report, call_existing>>

vars == <<pc, args, ban, lock, existing_rosters, rng, locals, history>>

\* Generator states of a process that has not seeded yet.
RngInits == {1, 6}

\* Flags on the pool's players when the caller first calls run_multi.
CallerFlags ==
    { <<NoFlags, NoFlags>>, <<FlagsOf({3}), NoFlags>>, <<NoFlags, FlagsOf({5})>> }

NoOverlay == [banned |-> {}, locked |-> {}]

\* The state before the first call, but for the arguments.
InitRest ==
    /\ pc = "idle"
    /\ existing_rosters = << >>
    /\ rng \in RngInits
    /\ rosters = << >>
    /\ it = 0
    /\ exposure_dct = None
    /\ players = << >>
    /\ values = None
    /\ roster = None
    /\ overlay = NoOverlay
    /\ halted = FALSE
    /\ results = << >>
    /\ call_ban = ban
    /\ call_lock = lock
    /\ solves = 0
    /\ created = 0
    /\ seedings = 0
    /\ hint_log = << >>
    /\ report = << >>
    /\ call_existing = << >>

Init ==
    /\ player_pool = DefaultPool
    /\ iterations \in 0..MaxIter
    /\ rule_set \in RuleSets
    /\ player_settings \in PlayerSettingsSet
    /\ exposure_bounds \in ExposureBoundsSet
    /\ exposure_random_seed \in SeedSet
    /\ verbose \in BOOLEAN
    /\ \E f \in CallerFlags : ban = f[1] /\ lock = f[2]
    /\ InitRest

\* The ten-player example as the caller's input.
InitExample ==
    /\ player_pool = ExamplePool
    /\ iterations \in 0..MaxIter
    /\ rule_set = ExampleRuleSet
    /\ player_settings \in ExampleSettingsSet
    /\ exposure_bounds \in ExampleBoundsSet
    /\ exposure_random_seed \in SeedSet
    /\ verbose \in BOOLEAN
    /\ ban = NoFlags
    /\ lock = NoFlags
    /\ InitRest

\* ------------------------------------------------------------- run_multi
\* Line 85: the generator is seeded only when the seed is truthy.
ShouldSeed(seed) == TruthyInt(seed)

\* Line 96: use_random=bool(exposure_random_seed).
UseRandom(seed) == TruthyInt(seed)

\* Lines 84-88: seed the generator when the seed is truthy, start the list.
CallRunMulti ==
    /\ pc = "idle"
    /\ Len(results) < MaxCalls
    /\ IF ShouldSeed(exposure_random_seed)
       THEN rng' = RngSeed(exposure_random_seed[1]) /\ seedings' = 1
       ELSE rng' = rng /\ seedings' = 0
    /\ rosters' = << >>
    /\ it' = 0
    /\ exposure_dct' = None
    /\ players' = << >>
    /\ values' = None
    /\ roster' = None
    /\ overlay' = NoOverlay
    /\ halted' = FALSE
    /\ call_ban' = ban
    /\ call_lock' = lock
    /\ solves' = 0
    /\ created' = 0
    /\ hint_log' = << >>
    /\ report' = << >>
    /\ call_existing' = existing_rosters
    /\ pc' = "ready"
    /\ UNCHANGED <<args, ban, lock, existing_rosters, results>>

\* Variant of ExposureArgs that seeds the generator again on every pass.
ExposureArgsReseed ==
    /\ pc = "ready"
    /\ it < iterations
    /\ LET again == ShouldSeed(exposure_random_seed)
           r0 == IF again THEN RngSeed(exposure_random_seed[1]) ELSE rng
           s1 == IF again THEN seedings + 1 ELSE seedings
       IN  /\ seedings' = s1
           /\ IF TruthyList(exposure_bounds)
              THEN LET h == get_exposure_args(existing_rosters, exposure_bounds,
                                              iterations,
                                              UseRandom(exposure_random_seed), r0)
                   IN  /\ exposure_dct' = Some([banned |-> h.banned,
                                                locked |-> h.locked])
                       /\ rng' = h.rng
                       /\ hint_log' = Append(hint_log,
                              [ existing_rosters |-> existing_rosters,
                                use_random |-> UseRandom(exposure_random_seed),
                                solves |-> solves, seedings |-> s1 ])
              ELSE exposure_dct' = None /\ rng' = r0 /\ hint_log' = hint_log
    /\ pc' = "solving"
    /\ UNCHANGED <<args, ban, lock, existing_rosters, rosters, it, players,
                   values, roster, overlay, halted, results, call_ban,
                   call_lock, solves, created, report, call_existing>>

\* Lines 89-98: the loop takes another pass and computes its hints.
ExposureArgs ==
    /\ pc = "ready"
    /\ it < iterations
    /\ IF TruthyList(exposure_bounds)
       THEN LET h == get_exposure_args(existing_rosters, exposure_bounds,
                                       iterations,
                                       UseRandom(exposure_random_seed), rng)
            IN  /\ exposure_dct' = Some([banned |-> h.banned, locked |-> h.locked])
                /\ rng' = h.rng
                /\ hint_log' = Append(hint_log,
                       [ existing_rosters |-> existing_rosters,
                         use_random |-> UseRandom(exposure_random_seed),
                         solves |-> solves, seedings |-> seedings ])
       ELSE exposure_dct' = None /\ rng' = rng /\ hint_log' = hint_log
    /\ pc' = "solving"
    /\ UNCHANGED <<args, ban, lock, existing_rosters, rosters, it, players,
                   values, roster, overlay, halted, results, call_ban,
                   call_lock, solves, created, seedings, report,
                   call_existing>>

\* Variant of RunSolve in which only the first pass applies the bans and
\* locks of player_settings; later passes solve under the hints alone.
RunSolveStaticOnce ==
    /\ pc = "solving"
    /\ LET cons == IF it = 0 THEN Constraints(player_settings)
                   ELSE [banned |-> {}, locked |-> {}]
           ps == filter_pool(player_settings)
           b2 == ApplyFlags(ban, ps, ForcedOut(cons, exposure_dct))
           l2 == ApplyFlags(lock, ps, ForcedIn(cons, exposure_dct))
           sol == Solve(ps, rule_set, b2, l2)
           r == IF sol # None THEN Some(ExtractFrom(1, ps, sol[1])) ELSE None
       IN  /\ ban' = b2
           /\ lock' = l2
           /\ players' = ps
           /\ values' = sol
           /\ roster' = r
           /\ created' = created + (IF r # None THEN 1 ELSE 0)
           /\ overlay' = [banned |-> ForcedOut(cons, exposure_dct),
                          locked |-> ForcedIn(cons, exposure_dct)]
    /\ solves' = solves + 1
    /\ pc' = "solved"
    /\ UNCHANGED <<args, existing_rosters, rng, rosters, it, exposure_dct,
                   halted, results, call_ban, call_lock, seedings, hint_log,
                   report, call_existing>>

\* Lines 100-107: the single-shot solve of this iteration.
RunSolve ==
    /\ pc = "solving"
    /\ \E r \in {run(rule_set, player_settings, exposure_dct, ban, lock)} :
           /\ ban' = r.ban
           /\ lock' = r.lock
           /\ players' = r.players
           /\ values' = r.values
           /\ roster' = r.roster
           /\ created' = created + (IF r.roster # None THEN 1 ELSE 0)
    /\ overlay' = [banned |-> ForcedOut(Constraints(player_settings), exposure_dct),
                   locked |-> ForcedIn(Constraints(player_settings), exposure_dct)]
    /\ solves' = solves + 1
    /\ pc' = "solved"
    /\ UNCHANGED <<args, existing_rosters, rng, rosters, it, exposure_dct,
                   halted, results, call_ban, call_lock, seedings, hint_log,
                   report, call_existing>>

\* Variant of Accept without line 109: the settings' history is not extended.
AcceptNoHistory ==
    /\ pc = "solved"
    /\ roster # None
    /\ existing_rosters' = existing_rosters
    /\ rosters' = Append(rosters, roster[1])
    /\ ban' = reset_player_ban_lock(ban, lock)[1]
    /\ lock' = reset_player_ban_lock(ban, lock)[2]
    /\ it' = it + 1
    /\ pc' = "ready"
    /\ UNCHANGED <<args, rng, exposure_dct, players, values, roster, overlay,
                   halted, history>>

\* Variant of Accept that extends the settings' history under both tests of
\* `if roster` (lines 108 and 111).
AcceptAppendTwice ==
    /\ pc = "solved"
    /\ roster # None
    /\ existing_rosters' = existing_rosters \o <<roster[1]>> \o <<roster[1]>>
    /\ rosters' = Append(rosters, roster[1])
    /\ ban' = reset_player_ban_lock(ban, lock)[1]
    /\ lock' = reset_player_ban_lock(ban, lock)[2]
    /\ it' = it + 1
    /\ pc' = "ready"
    /\ UNCHANGED <<args, rng, exposure_dct, players, values, roster, overlay,
                   halted, history>>

\* Lines 108-112 and 117: a roster came back; record it and reset the flags.
Accept ==
    /\ pc = "solved"
    /\ roster # None
    /\ existing_rosters' = existing_rosters \o <<roster[1]>>
    /\ rosters' = Append(rosters, roster[1])
    /\ ban' = reset_player_ban_lock(ban, lock)[1]
    /\ lock' = reset_player_ban_lock(ban, lock)[2]
    /\ it' = it + 1
    /\ pc' = "ready"
    /\ UNCHANGED <<args, rng, exposure_dct, players, values, roster, overlay,
                   halted, history>>

\* Variant of Reject that goes on to the next pass instead of breaking.
RejectContinue ==
    /\ pc = "solved"
    /\ roster = None
    /\ halted' = TRUE
    /\ it' = it + 1
    /\ pc' = "ready"
    /\ UNCHANGED <<args, ban, lock, existing_rosters, rng, rosters,
                   exposure_dct, players, values, roster, overlay, history>>

\* Variant of Reject that solves the failed pass once more before breaking.
RejectRetry ==
    /\ pc = "solved"
    /\ roster = None
    /\ halted' = (solves > it + 1)
    /\ pc' = IF solves > it + 1 THEN "exit" ELSE "solving"
    /\ UNCHANGED <<args, ban, lock, existing_rosters, rng, rosters, it,
                   exposure_dct, players, values, roster, overlay, history>>

\* Lines 111-114: no roster came back; leave the loop.
Reject ==
    /\ pc = "solved"
    /\ roster = None
    /\ halted' = TRUE
    /\ pc' = "exit"
    /\ UNCHANGED <<args, ban, lock, existing_rosters, rng, rosters, it,
                   exposure_dct, players, values, roster, overlay, history>>

\* Line 89: range(0, iterations) is exhausted.
LoopDone ==
    /\ pc = "ready"
    /\ it >= iterations
    /\ pc' = "exit"
    /\ UNCHANGED <<args, ban, lock, existing_rosters, rng, locals, history>>

\* Lines 119-127: the deviation map, filled only when rosters and verbose.
ExposureDiffs(rs, bounds, vb) ==
    IF TruthyList(rs) /\ vb THEN check_exposure(rs, bounds) ELSE << >>

\* Lines 128-132: one printed line per entry of the map, UNDER when the
\* deviation is negative and OVER otherwise.
ReportLines(diffs) ==
    [k \in 1..Len(diffs) |->
        [ name |-> diffs[k][1],
          kind |-> IF diffs[k][2] < 0 THEN "UNDER" ELSE "OVER",
          by |-> diffs[k][2] ]]

Return ==
    /\ pc = "exit"
    /\ results' = Append(results,
                         [ rosters |-> rosters,
                           exposure_diffs |->
                               ExposureDiffs(rosters, exposure_bounds, verbose) ])
    /\ report' = ReportLines(ExposureDiffs(rosters, exposure_bounds, verbose))
    /\ pc' = "idle"
    /\ UNCHANGED <<args, ban, lock, existing_rosters, rng, locals,
                   call_ban, call_lock, solves, created, seedings, hint_log,
                   call_existing>>

Next ==
    \/ CallRunMulti
    \/ ExposureArgs
    \/ RunSolve
    \/ Accept
    \/ Reject
    \/ LoopDone
    \/ Return

Spec == Init /\ [][Next]_vars

\* The same program run on the ten-player example.
SpecExample == InitExample /\ [][Next]_vars

\* Lines 89-134 are straight-line code around solver calls that return: a
\* call that has been entered keeps taking its next step.
RunStep ==
    \/ ExposureArgs
    \/ RunSolve
    \/ Accept
    \/ Reject
    \/ LoopDone
    \/ Return

FairSpec == Spec /\ WF_vars(RunStep)

\* ================================================================= claims
\* run_multi has returned at least once and the caller has not called again.
Returned == pc = "idle" /\ Len(results) >= 1

LastResult == results[Len(results)]

\* The last n entries of a list.
Tail_n(s, n) == SubSeq(s, Len(s) - n + 1, Len(s))

\* The players of the solve's list that bear one of the names.
Resolved(names) == {p \in Range(players) : player_pool[p].name \in names}

\* C1: once an iteration's solve returns no roster the loop is left at once:
\* exactly one solve ran beyond the accepted ones, no later pass starts, and
\* the list returned is the list of rosters accepted before the failure, in
\* acceptance order (the same rosters that were appended to existing_rosters).
C1_HaltOnFailedSolve ==
    halted =>
        /\ pc \in {"exit", "idle"}
        /\ roster = None
        /\ it = Len(rosters)
        /\ solves = Len(rosters) + 1
        /\ rosters = Tail_n(existing_rosters, Len(rosters))
        /\ (pc = "idle" => LastResult.rosters = rosters)

\* A halt after one accepted iteration, with iterations still remaining.
C1_Witness ==
    /\ Returned
    /\ halted
    /\ Len(LastResult.rosters) >= 1
    /\ Len(LastResult.rosters) + 1 < iterations

\* C2: on every exit of run_multi, whatever the verbose flag, the returned
\* pair holds the accumulated rosters and the exposure deviation computed over
\* them.
C2_DeviationOnEveryExit ==
    Returned =>
        /\ LastResult.rosters = rosters
        /\ LastResult.exposure_diffs = check_exposure(rosters, exposure_bounds)

\* C3: a flag set during iteration k is cleared before iteration k+1 begins:
\* every later iteration starts with no flag set, and the flags it solves
\* under are exactly the ones applied for that iteration.
C3_OverlayReset ==
    it >= 1 =>
        /\ pc \in {"ready", "solving"} => AllClear(ban, lock)
        /\ pc = "solved" =>
              \A p \in PlayerIds :
                  /\ ban[p] <=> p \in Resolved(overlay.banned)
                  /\ lock[p] <=> p \in Resolved(overlay.locked)

\* A second or later iteration is about to start after one that set a flag.
C3_Witness ==
    /\ pc = "ready"
    /\ it >= 1
    /\ it < iterations
    /\ Resolved(overlay.banned \cup overlay.locked) # {}

\* C4 as stated: every iteration, the first included, starts with every flag
\* false.
C4_FlagsClearAtEveryIteration ==
    (pc = "ready" /\ it < iterations) => AllClear(ban, lock)

\* C4 amended: every iteration after the first starts with every flag false;
\* the first starts with the flags the players had when run_multi was called.
C4_FlagsClearAfterFirst ==
    (pc = "ready" /\ it < iterations) =>
        IF it = 0 THEN ban = call_ban /\ lock = call_lock
        ELSE AllClear(ban, lock)

\* Iterations start both with the caller's flags still set and after a reset.
C4_Witness ==
    /\ pc = "ready"
    /\ it >= 1
    /\ it < iterations
    /\ ~AllClear(call_ban, call_lock)

\* C5 as stated: the overlay is reset after each iteration, accepted or
\* rejected, so whenever run_multi returns after running an iteration every
\* flag is false.
C5_FlagsClearOnReturn == (Returned /\ solves >= 1) => AllClear(ban, lock)

\* C5 amended: the reset follows accepted iterations only.  After N >= 1
\* accepted iterations every flag is false; after a halt the flags are the
\* ones the failing iteration started with plus the ones applied for it; with
\* no iteration run the flags are as they were at the call.
C5_FlagsOnReturn ==
    Returned =>
        IF halted
        THEN LET b0 == IF Len(rosters) = 0 THEN call_ban ELSE NoFlags
                 l0 == IF Len(rosters) = 0 THEN call_lock ELSE NoFlags
             IN  /\ ban = [p \in PlayerIds |-> b0[p] \/ p \in Resolved(overlay.banned)]
                 /\ lock = [p \in PlayerIds |-> l0[p] \/ p \in Resolved(overlay.locked)]
        ELSE IF Len(rosters) >= 1 THEN AllClear(ban, lock)
        ELSE ban = call_ban /\ lock = call_lock

\* Returns by both paths: a halt that leaves a flag of the failing iteration
\* set, and (in another state) a completion; the halt is the one witnessed.
C5_Witness ==
    /\ Returned
    /\ halted
    /\ Len(rosters) >= 1
    /\ Resolved(overlay.banned \cup overlay.locked) # {}
    /\ ~AllClear(ban, lock)

\* C6: run_multi called twice in a row with the same seed (one that seeds the
\* generator) and the same arguments returns the same roster sequence both
\* times.
C6_SameSeedSameRosters ==
    TruthyInt(exposure_random_seed) =>
        \A i, j \in 1..Len(results) : results[i].rosters = results[j].rosters

\* Names listed in player_settings (no names when there are no settings).
SettingsBanned ==
    IF player_settings = None THEN {} ELSE Range(player_settings[1].banned)

SettingsLocked ==
    IF player_settings = None THEN {} ELSE Range(player_settings[1].locked)

\* Some assignment satisfies the rule set together with every ban and lock
\* in force for the solve that just ran.
FeasibleExists == FeasibleSet(players, rule_set, ban, lock) # {}

\* C7: after a single-shot solve, if a feasible roster exists under the bans
\* and locks in force then a roster is returned, no player named in
\* player_settings.banned is in it and every player named in
\* player_settings.locked is in it.
C7_BannedAbsentLockedPresent ==
    (pc = "solved" /\ FeasibleExists) =>
        /\ roster # None
        /\ \A p \in Resolved(SettingsBanned) : p \notin Range(roster[1])
        /\ \A p \in Resolved(SettingsLocked) : p \in Range(roster[1])

\* A solve with a locked player that the unconstrained optimum leaves out.
C7_Witness ==
    /\ pc = "solved"
    /\ roster # None
    /\ Resolved(SettingsLocked) # {}
    /\ exposure_dct = None
    /\ LET free == Solve(players, rule_set, NoFlags, NoFlags)
       IN  free # None /\ ExtractFrom(1, players, free[1]) # roster[1]

\* C8: after a successful solve the roster holds exactly the players of the
\* filtered list whose variable is 1, each once.
C8_ExactlySelectedAdded ==
    (pc = "solved" /\ roster # None) =>
        /\ Range(roster[1]) = {players[i] : i \in Selected(values[1])}
        /\ Len(roster[1]) = Cardinality(Selected(values[1]))

\* A successful solve over a list the filter shortened, so that list index
\* and pool index differ for a selected player.
C8_Witness ==
    /\ pc = "solved"
    /\ roster # None
    /\ Len(players) < Len(player_pool)
    /\ \E i \in Selected(values[1]) : players[i] # i
    /\ \E i \in DOMAIN values[1] : values[1][i] = 0

RosterCost(r) == SumOver([p \in PlayerIds |-> player_pool[p].cost], Range(r))

\* C9: when a feasible roster exists the solve returns one, and a returned
\* roster has total salary <= cap, per-position counts equal to the quota
\* table and roster_size players.
C9_RosterMeetsRuleSet ==
    pc = "solved" =>
        /\ FeasibleExists => roster # None
        /\ roster # None =>
              /\ RosterCost(roster[1]) <= rule_set.cap
              /\ \A pos \in Positions :
                    Cardinality({k \in 1..Len(roster[1]) :
                                    player_pool[roster[1][k]].pos = pos})
                        = rule_set.quota[pos]
              /\ Len(roster[1]) = rule_set.roster_size

\* A returned roster that spends the whole cap while cheaper players remain.
C9_Witness ==
    /\ pc = "solved"
    /\ roster # None
    /\ RosterCost(roster[1]) = rule_set.cap
    /\ Len(players) > rule_set.roster_size

\* The rule set alone admits no roster over the filtered pool.
BaseInfeasible ==
    FeasibleSet(filter_pool(player_settings), rule_set, NoFlags, NoFlags) = {}

\* C10 as stated: with no feasible assignment the solve returns None and
\* creates no roster, and run_multi returns strictly fewer rosters than any
\* requested count N.
C10_InfeasibleFewerThanAnyN ==
    BaseInfeasible =>
        /\ created = 0
        /\ pc = "solved" => roster = None /\ values = None
        /\ Returned => Len(LastResult.rosters) < iterations

\* C10 amended: as stated for every requested count N >= 1 (no roster at
\* all is returned); for N = 0 no solve runs and the empty list returned is
\* not shorter than requested.
C10_InfeasibleFewerThanN ==
    BaseInfeasible =>
        /\ created = 0
        /\ pc = "solved" => roster = None /\ values = None
        /\ Returned =>
              /\ LastResult.rosters = << >>
              /\ iterations >= 1 => Len(LastResult.rosters) < iterations
              /\ iterations >= 1 => solves = 1 /\ halted

\* An infeasible run of several requested iterations has returned.
C10_Witness ==
    /\ BaseInfeasible
    /\ Returned
    /\ iterations >= 2
    /\ solves = 1
    /\ LastResult.rosters = << >>

\* A run_multi call has started (and may have returned).
Called == pc # "idle" \/ Len(results) >= 1

\* C11: whenever a seed is supplied, 0 included, the generator is seeded with
\* it and every iteration's hints are requested with use_random true; only
\* with no seed is the generator left unseeded and use_random false.
C11_AnySeedSeedsAndRandomizes ==
    Called =>
        IF exposure_random_seed # None
        THEN /\ seedings = 1
             /\ \A k \in 1..Len(hint_log) : hint_log[k].use_random
        ELSE /\ seedings = 0
             /\ \A k \in 1..Len(hint_log) : ~hint_log[k].use_random

\* The roster an unconstrained solve over the solve's list returns.
FreeOptimum ==
    LET free == Solve(players, rule_set, NoFlags, NoFlags)
    IN  IF free = None THEN None ELSE Some(ExtractFrom(1, players, free[1]))

RosterValue(r) == SumOver([p \in PlayerIds |-> player_pool[p].value], Range(r))

\* r is a legal roster of the highest total value among the legal ones.
IsBestLegal(r) ==
    /\ Len(r) = rule_set.roster_size
    /\ Cardinality(Range(r)) = Len(r)
    /\ RosterCost(r) <= rule_set.cap
    /\ \A v \in Assignments(players) :
           Legal(players, rule_set, v) => TotalValue(players, v) <= RosterValue(r)

\* The name of the pool's single most valuable player.
MostValuable ==
    player_pool[CHOOSE p \in PlayerIds :
                   \A q \in PlayerIds : player_pool[q].value <= player_pool[p].value].name

\* A single-shot solve of the example: no exposure hints.
ExampleSolved == pc = "solved" /\ exposure_dct = None

\* C12 as stated: the example's solve returns the 5-player roster of highest
\* total value with cost <= 100, and with the single most valuable player
\* banned it returns a different roster.
C12_ExampleBanChangesRoster ==
    ExampleSolved =>
        /\ SettingsBanned = {} => roster # None /\ IsBestLegal(roster[1])
        /\ SettingsBanned = {MostValuable} =>
              /\ roster # None
              /\ roster # FreeOptimum

\* C12 amended: the example's solve returns the five cheapest players (costs
\* 10, 20, 30, 15, 25: total exactly 100), the only legal roster and so the
\* one of highest value; with the pool's most valuable player (cost 55)
\* banned the same roster is returned, since that player was never in it.
C12_ExampleBanKeepsRoster ==
    ExampleSolved =>
        /\ SettingsBanned = {} =>
              /\ roster = Some(<<1, 2, 3, 6, 7>>)
              /\ IsBestLegal(roster[1])
              /\ RosterCost(roster[1]) = 100
        /\ SettingsBanned = {MostValuable} =>
              /\ MostValuable = "P55"
              /\ roster = Some(<<1, 2, 3, 6, 7>>)
              /\ roster = FreeOptimum

\* The example solved with the most valuable player banned.
C12_Witness ==
    /\ ExampleSolved
    /\ player_pool = ExamplePool
    /\ SettingsBanned = {"P55"}
    /\ ban[10]
    /\ roster # None

\* C13: in no state of a solve is a player both forced out and forced in for
\* the same iteration, also when one name is in both player_settings.banned
\* and player_settings.locked.
C13_NeverForcedOutAndIn ==
    pc = "solved" =>
        \A p \in PlayerIds :
            ~(p \in Resolved(overlay.banned) /\ p \in Resolved(overlay.locked))

\* The flags the solve that just ran started with.
PreBan == IF it = 0 THEN call_ban ELSE NoFlags

PreLock == IF it = 0 THEN call_lock ELSE NoFlags

\* Names of the solve's list.
ActiveNames == {player_pool[p].name : p \in Range(players)}

\* Names of player_settings.banned / locked that resolve to no active player.
UnresolvedNames == (SettingsBanned \cup SettingsLocked) \ ActiveNames

\* player_settings with those names left out.
WithoutUnresolved ==
    IF player_settings = None THEN None
    ELSE Some([ banned |-> SelectSeq(player_settings[1].banned,
                                     LAMBDA n : n \in ActiveNames),
                locked |-> SelectSeq(player_settings[1].locked,
                                     LAMBDA n : n \in ActiveNames),
                min_salary |-> player_settings[1].min_salary ])

\* C14: a ban or lock name that resolves to no player of the active pool is
\* a silent no-op: the call completes, the solve's list keeps every player,
\* and roster, solution and flags are those of the same call without the
\* name.
C14_UnresolvedNameIsNoOp ==
    pc = "solved" =>
        LET r == run(rule_set, WithoutUnresolved, exposure_dct, PreBan, PreLock)
        IN  /\ players = r.players
            /\ roster = r.roster
            /\ values = r.values
            /\ ban = r.ban
            /\ lock = r.lock

\* A solve that returned a roster although a listed name matched no player
\* (a name outside the pool, or a player the filter dropped).
C14_Witness ==
    /\ pc = "solved"
    /\ UnresolvedNames # {}
    /\ roster # None
    /\ WithoutUnresolved # player_settings

\* The report printed a line of the given kind for the player.
Reported(nm, kind) ==
    \E k \in 1..Len(report) : report[k].name = nm /\ report[k].kind = kind

\* C15: in the verbose report every player of the deviation map is reported
\* UNDER exactly when its deviation is negative and OVER exactly when it is
\* positive; a deviation of 0 is reported as neither.
C15_ReportFollowsSign ==
    Returned =>
        \A k \in 1..Len(LastResult.exposure_diffs) :
            LET nm == LastResult.exposure_diffs[k][1]
                d == LastResult.exposure_diffs[k][2]
            IN  /\ Reported(nm, "UNDER") <=> d < 0
                /\ Reported(nm, "OVER") <=> d > 0

\* C16: within one run_multi call the generator is seeded at most once, the
\* seeding precedes the first iteration's hints, and no seeding happens
\* between iterations: every hint computation saw the call's final number
\* of seedings.
C16_SeededOnceBeforeHints ==
    Called =>
        /\ seedings <= 1
        /\ \A k \in 1..Len(hint_log) : hint_log[k].seedings = seedings

\* A seeded call that has computed hints for a second iteration.
C16_Witness ==
    /\ seedings = 1
    /\ Len(hint_log) >= 2
    /\ hint_log[1].use_random

\* C17: with exposure bounds configured, the hints of iteration k are
\* computed after k-1 solves, i.e. after the roster of iteration k-1 was
\* appended and before the solve of iteration k, and the history handed to
\* the Exposure Controller ends with every roster accepted so far in
\* acceptance order; with no bounds no hints are computed and the solve
\* receives None.
C17_HintsFollowHistory ==
    Called =>
        IF TruthyList(exposure_bounds)
        THEN /\ \A k \in 1..Len(hint_log) :
                    /\ hint_log[k].solves = k - 1
                    /\ Len(hint_log[k].existing_rosters) >= k - 1
                    /\ Tail_n(hint_log[k].existing_rosters, k - 1)
                           = SubSeq(rosters, 1, k - 1)
             /\ pc \in {"solving", "solved"} =>
                    Len(hint_log) = it + 1 /\ exposure_dct # None
        ELSE hint_log = << >> /\ exposure_dct = None

\* Hints are being used for a third iteration, after two accepted rosters.
C17_Witness ==
    /\ pc = "solving"
    /\ Len(hint_log) = 3
    /\ Len(rosters) = 2
    /\ rosters[1] # rosters[2]

\* C18 (state part): existing_rosters is its value at call time followed by
\* the rosters accepted so far, and the returned list holds one entry per
\* accepted iteration.
C18_HistoryIsCallValuePlusAccepted ==
    /\ existing_rosters = call_existing \o rosters
    /\ Len(rosters) = it
    /\ created = Len(rosters) + (IF pc = "solved" /\ roster # None THEN 1 ELSE 0)

\* C18 (step part): a step either leaves both lists alone, or appends the
\* accepted roster once to each, or is a new call starting an empty local
\* list; the single-shot run changes neither.
C18_ListStep ==
    \/ rosters' = rosters /\ existing_rosters' = existing_rosters
    \/ /\ pc = "solved" /\ roster # None
       /\ rosters' = Append(rosters, roster[1])
       /\ existing_rosters' = Append(existing_rosters, roster[1])
    \/ /\ pc = "idle"
       /\ rosters' = << >>
       /\ existing_rosters' = existing_rosters

\* C18: the accumulated roster lists are append-only during run_multi: each
\* accepted roster is appended exactly once to the returned list and exactly
\* once to optimizer_settings.existing_rosters, nothing is removed or
\* reordered, run leaves existing_rosters alone, and existing_rosters always
\* equals its value at call time followed by the rosters accepted so far.
C18_AppendOnly ==
    [](C18_HistoryIsCallValuePlusAccepted) /\ [][C18_ListStep]_vars

\* A second call has accepted a roster on top of the first call's history.
C18_Witness ==
    /\ Len(call_existing) >= 1
    /\ Len(rosters) >= 1
    /\ pc = "ready"

\* The names run records from player_settings (lists that are truthy).
StaticBanned == SettingsBanned

StaticLocked == SettingsLocked

\* C19: the caller's static bans and locks are applied in every iteration of
\* run_multi, not only the first: each solve forces them again after the
\* flag reset, so no returned roster holds a statically banned player and
\* every returned roster holds every statically locked one.
C19_StaticBansEveryIteration ==
    /\ pc = "solved" =>
          /\ StaticBanned \subseteq overlay.banned
          /\ StaticLocked \subseteq overlay.locked
          /\ \A p \in Resolved(StaticBanned) : ban[p]
          /\ \A p \in Resolved(StaticLocked) : lock[p]
    /\ \A k \in 1..Len(rosters) :
          /\ \A j \in 1..Len(rosters[k]) :
                player_pool[rosters[k][j]].name \notin StaticBanned
          /\ \A p \in Resolved(StaticLocked) : p \in Range(rosters[k])

\* Two rosters were accepted although the unconstrained optimum holds a
\* statically banned player.
C19_Witness ==
    /\ pc = "ready"
    /\ Len(rosters) >= 2
    /\ FreeOptimum # None
    /\ \E p \in Resolved(StaticBanned) : p \in Range(FreeOptimum[1])

\* The passes of the loop started so far in the current call.
Started == it + (IF pc \in {"solving", "solved"} \/ halted THEN 1 ELSE 0)

\* C20 (counts): the solver is invoked once per pass started and never more
\* than `iterations` times; the list returned has at most `iterations`
\* rosters, has exactly that many when and only when no solve failed, and
\* otherwise has one roster fewer than there were solver invocations.
C20_Counts ==
    /\ solves <= iterations
    /\ pc \in {"ready", "solved", "exit"} => solves = Started
    /\ pc = "solving" => solves + 1 = Started
    /\ pc # "idle" => Len(rosters) = it
    /\ Returned =>
          /\ solves = Started
          /\ Len(LastResult.rosters) <= iterations
          /\ (Len(LastResult.rosters) = iterations) <=> ~halted
          /\ halted => Len(LastResult.rosters) = solves - 1

\* C20: provided each solver call returns, a call of run_multi that has been
\* entered returns, and the counts above hold throughout.
C20_TerminatesWithinN ==
    /\ [](C20_Counts)
    /\ (pc # "idle") ~> Returned

\* A call of several passes has returned with every solve successful.
C20_Witness ==
    /\ Returned
    /\ iterations >= 2
    /\ ~halted
    /\ solves = iterations
    /\ Len(LastResult.rosters) = iterations

====
